---- MODULE Spec2Model ----
(***************************************************************************)
(* A model of chyp: the hypergraph container (src/chyp/graph.py), the      *)
(* parse/state layer (src/chyp/state.py) and the two graph layouts         *)
(* (src/chyp/layout.py).                                                   *)
(*                                                                         *)
(* GraphSpec  : Graph.add_vertex / add_edge / add_simple_edge on two Graph *)
(*              instances that live in the same Python process.            *)
(* StateSpec  : sequences of State.update(code) calls.                     *)
(* PartAtSpec : one State.update(code) followed by State.part_at(pos)      *)
(*              queries.                                                   *)
(* LayoutSpec : a Graph is built, then convex_layout or layer_layout is    *)
(*              run on it.                                                 *)
(***************************************************************************)
EXTENDS Integers, Sequences, FiniteSets, TLC

VARIABLES
    \* ---- src/chyp/graph.py ----
    vdata,      \* Graph.vdata  : per Graph instance, vertex id -> VData
    edata,      \* Graph.edata  : per Graph instance, edge id -> EData
    vindex,     \* Graph.vindex : per Graph instance
    eindex,     \* Graph.eindex : per Graph instance
    setobj,     \* the Python heap of set objects VData.in_edges/out_edges refer to
    gcall,      \* the last Graph call: its operation, receiver, arguments and
                \* outcome (raised: it ended in KeyError; ret: the id it returned
                \* or would have returned), and clean: no call so far has raised
    \* ---- src/chyp/state.py ----
    graphs,     \* State.graphs
    rules,      \* State.rules
    parts,      \* State.parts
    holes,      \* State.holes
    errors,     \* State.errors
    scall       \* the last State call: its operation, argument (code or pos)
                \* and result, and loaded: the State held a graph and a rule
                \* when the call was made

graphVars == <<vdata, edata, vindex, eindex, setobj, gcall>>
stateVars == <<graphs, rules, parts, holes, errors, scall>>
vars == <<vdata, edata, vindex, eindex, setobj, gcall,
          graphs, rules, parts, holes, errors, scall>>

(***************************************************************************)
(* Bounds of the model.                                                    *)
(***************************************************************************)
MaxVertices == 2    \* add_vertex calls per Graph instance
MaxEdges == 2       \* add_edge / add_simple_edge calls over all instances
MaxPorts == 1       \* length of a source or target list passed to add_edge
MaxStmts == 2       \* statements in a well-formed source text

(***************************************************************************)
(* Python values of the untyped fields x, y, value: a number or a string.  *)
(***************************************************************************)
Num(n) == [tag |-> "num", num |-> n, str |-> ""]
Str(s) == [tag |-> "str", num |-> 0, str |-> s]

\* The two Graph instances of the model.
GraphIds == {"g1", "g2"}

(***************************************************************************)
(* VData.__init__ (graph.py:19-25).  The defaults in_edges=set() and       *)
(* out_edges=set() are evaluated once, when the def statement runs: every  *)
(* call that omits them receives a reference to the same two set objects.  *)
(* A VData therefore holds references (keys of setobj), not sets.          *)
(***************************************************************************)
DefaultInEdges == "VData.__init__.in_edges"
DefaultOutEdges == "VData.__init__.out_edges"

VData(x, y, value, in_edges, out_edges) ==
    [x |-> x, y |-> y, value |-> value,
     in_edges |-> in_edges, out_edges |-> out_edges]

\* EData.__init__ (graph.py:27-34): hyper defaults to True.
EData(s, t, x, y, value) ==
    [value |-> value, x |-> x, y |-> y, s |-> s, t |-> t, hyper |-> TRUE]

\* dict item assignment d[k] = v
DictSet(d, k, v) == [u \in (DOMAIN d) \cup {k} |-> IF u = k THEN v ELSE d[u]]

\* Graph.vertices / Graph.edges (graph.py:43-47)
vertices(g) == DOMAIN vdata[g]
edges(g) == DOMAIN edata[g]

\* The sets a vertex's in_edges / out_edges references denote.
in_edges(g, v) == setobj[vdata[g][v].in_edges]
out_edges(g, v) == setobj[vdata[g][v].out_edges]

(***************************************************************************)
(* The two loops of add_edge (graph.py:65-66):                             *)
(*     for v in s: self.vdata[v].out_edges.add(e)                          *)
(* self.vdata[v] raises KeyError at the first v that is no vertex; the     *)
(* additions made before it stay.  field is "in_edges" or "out_edges".     *)
(***************************************************************************)
RECURSIVE AddToEach(_, _, _, _, _, _)
AddToEach(heap, vd, list, i, field, e) ==
    IF i > Len(list) THEN [heap |-> heap, raised |-> FALSE]
    ELSE IF list[i] \notin DOMAIN vd THEN [heap |-> heap, raised |-> TRUE]
    ELSE LET ref == vd[list[i]][field]
         IN AddToEach([heap EXCEPT ![ref] = @ \cup {e}], vd, list, i + 1, field, e)

(***************************************************************************)
(* Graph.add_edge (graph.py:61-67) as a function of the object: the fields *)
(* of the Graph after the call, the heap after it, and how it ended.       *)
(* The edge is stored before any vertex is looked up.                      *)
(***************************************************************************)
add_edge_result(g, s, t, x, y, value) ==
    LET e == eindex[g]
        ed == DictSet(edata[g], e, EData(s, t, x, y, value))
        outs == AddToEach(setobj, vdata[g], s, 1, "out_edges", e)
        ins == IF outs.raised THEN outs
               ELSE AddToEach(outs.heap, vdata[g], t, 1, "in_edges", e)
    IN [edata |-> ed, eindex |-> e + 1, heap |-> ins.heap,
        raised |-> ins.raised, ret |-> e]

TotalEdges == eindex["g1"] + eindex["g2"]

VertexIds == 0..MaxVertices
RECURSIVE SeqsUpTo(_, _)
SeqsUpTo(S, n) ==
    IF n = 0 THEN {<<>>}
    ELSE LET shorter == SeqsUpTo(S, n - 1)
         IN shorter \cup {Append(q, a) : q \in {r \in shorter : Len(r) = n - 1}, a \in S}
PortLists == SeqsUpTo(VertexIds, MaxPorts)
EdgeValues == {Str("f")}

\* Graph.add_vertex (graph.py:55-59), called with its defaults.
add_vertex(g, x, y, value) ==
    /\ vindex[g] < MaxVertices
    /\ LET v == vindex[g]
       IN /\ vindex' = [vindex EXCEPT ![g] = v + 1]
          /\ vdata' = [vdata EXCEPT ![g] =
                 DictSet(@, v, VData(x, y, value, DefaultInEdges, DefaultOutEdges))]
          /\ gcall' = [op |-> "add_vertex", g |-> g, raised |-> FALSE, ret |-> v,
                       s |-> <<>>, t |-> <<>>, value |-> value,
                       clean |-> gcall.clean]
    /\ UNCHANGED <<edata, eindex, setobj>>
    /\ UNCHANGED stateVars

\* Graph.add_edge (graph.py:61-67)
add_edge(g, s, t, x, y, value) ==
    /\ TotalEdges < MaxEdges
    /\ LET r == add_edge_result(g, s, t, x, y, value)
       IN /\ eindex' = [eindex EXCEPT ![g] = r.eindex]
          /\ edata' = [edata EXCEPT ![g] = r.edata]
          /\ setobj' = r.heap
          /\ gcall' = [op |-> "add_edge", g |-> g, raised |-> r.raised, ret |-> r.ret,
                       s |-> s, t |-> t, value |-> value,
                       clean |-> gcall.clean /\ ~r.raised]
    /\ UNCHANGED <<vdata, vindex>>
    /\ UNCHANGED stateVars

(***************************************************************************)
(* Graph.add_simple_edge (graph.py:69-72):                                 *)
(*     e = self.add_edge([s], [t], value)                                  *)
(*     self.edata[e].hyper = False                                         *)
(* value is the third positional argument of add_edge, which is x; the     *)
(* edge's value keeps add_edge's default "".  When add_edge raises, the    *)
(* second line does not run.                                               *)
(***************************************************************************)
add_simple_edge(g, s, t, value) ==
    /\ TotalEdges < MaxEdges
    /\ LET r == add_edge_result(g, <<s>>, <<t>>, value, Num(0), Str(""))
       IN /\ eindex' = [eindex EXCEPT ![g] = r.eindex]
          /\ edata' = [edata EXCEPT ![g] =
                 IF r.raised THEN r.edata
                 ELSE [r.edata EXCEPT ![r.ret].hyper = FALSE]]
          /\ setobj' = r.heap
          /\ gcall' = [op |-> "add_simple_edge", g |-> g, raised |-> r.raised,
                       ret |-> r.ret, s |-> <<s>>, t |-> <<t>>, value |-> value,
                       clean |-> gcall.clean /\ ~r.raised]
    /\ UNCHANGED <<vdata, vindex>>
    /\ UNCHANGED stateVars

AddVertex == \E g \in GraphIds : add_vertex(g, Num(0), Num(0), Str(""))
AddEdge == \E g \in GraphIds, s \in PortLists, t \in PortLists, value \in EdgeValues :
               add_edge(g, s, t, Num(0), Num(0), value)
AddSimpleEdge == \E g \in GraphIds, s \in VertexIds, t \in VertexIds, value \in EdgeValues :
                     add_simple_edge(g, s, t, value)

GraphNext == AddVertex \/ AddEdge \/ AddSimpleEdge

(***************************************************************************)
(*                     src/chyp/layout.py                                  *)
(*                                                                         *)
(* Coordinates are Python floats; the model holds them in sixtieths        *)
(* (Unit is 1.0), which represents every value the two layouts compute     *)
(* from the graphs of the model exactly.                                   *)
(***************************************************************************)
Unit == 60
Min(a, b) == IF a <= b THEN a ELSE b
Max(a, b) == IF a >= b THEN a ELSE b

\* A set of ids as the list of them in increasing order.
RECURSIVE Sorted(_)
Sorted(S) ==
    IF S = {} THEN <<>>
    ELSE LET m == CHOOSE a \in S : \A b \in S : a <= b
         IN <<m>> \o Sorted(S \ {m})

(***************************************************************************)
(* The parts of the Graph interface layout.py uses whose code is not in    *)
(* graph.py as given: Graph.source, Graph.target, EData.box_size and       *)
(* term.layer_decomp.  layer_decomp(g) is taken to return, without         *)
(* changing g, some split of g's vertices into len(e_layers) + 1 layers    *)
(* and of g's edges into non-empty layers; which split is not known here,  *)
(* so the model allows every one.                                          *)
(***************************************************************************)
source(ed, e) == ed[e].s
target(ed, e) == ed[e].t
box_size(d) == Unit * Max(1, Max(Len(d.s), Len(d.t)))
layer_decomp(g) ==
    UNION {
      { [v_layers |-> [k \in 1..(L + 1) |-> Sorted({v \in vertices(g) : fv[v] = k})],
         e_layers |-> [k \in 1..L |-> Sorted({e \in edges(g) : fe[e] = k})]] :
          fv \in [vertices(g) -> 1..(L + 1)],
          fe \in {h \in [edges(g) -> 1..L] : \A k \in 1..L : \E e \in edges(g) : h[e] = k} }
      : L \in 0..Cardinality(edges(g)) }

\* for i, v in enumerate(layer): vd.x = x; vd.y = i - (len(layer) - 1)/2
\* (layout.py:41-44, 123-126, 168-171); i counts from 1 here.
RECURSIVE PlaceVertices(_, _, _, _)
PlaceVertices(vd, layer, x, i) ==
    IF i > Len(layer) THEN vd
    ELSE PlaceVertices(
             [vd EXCEPT ![layer[i]].x = Num(x),
                        ![layer[i]].y = Num((i - 1) * Unit
                                            - ((Len(layer) - 1) * Unit) \div 2)],
             layer, x, i + 1)

\* sum(g.vertex_data(v).y for v in ed.s)/len(ed.s) if len(ed.s) != 0 else 0
\* (layout.py:140, 153, 162)
RECURSIVE SumY(_, _, _)
SumY(vd, list, i) ==
    IF i > Len(list) THEN 0 ELSE vd[list[i]].y.num + SumY(vd, list, i + 1)
SourceCentre(vd, list) ==
    IF Len(list) # 0 THEN SumY(vd, list, 1) \div Len(list) ELSE 0

(***************************************************************************)
(* One edge of a layer in layer_layout.  st is the layout so far: the      *)
(* vertex and edge data, max_y, min_y, and raised once                     *)
(* g.vertex_data(v) has raised KeyError for a source v that is no vertex   *)
(* (ed.x is assigned before ed.y is computed).  how is "middle"            *)
(* (layout.py:137-143), "above" (149-155) or "below" (158-164).            *)
(***************************************************************************)
PlaceEdge(st, e, x, how) ==
    LET pad == box_size(st.ed[e]) \div 2
        Put(withX, y) ==
            [st EXCEPT !.ed = [withX EXCEPT ![e].y = Num(y)],
                       !.max_y = IF how = "middle" THEN -pad
                                 ELSE IF how = "above" THEN y - pad ELSE @,
                       !.min_y = IF how = "middle" THEN pad
                                 ELSE IF how = "below" THEN y + pad ELSE @]
        At(withX, c) ==
            Put(withX, IF how = "middle" THEN c
                       ELSE IF how = "above" THEN Min(st.max_y - pad, c)
                       ELSE Max(st.min_y + pad, c))
        SetX(withX) ==
            IF \E k \in 1..Len(st.ed[e].s) : st.ed[e].s[k] \notin DOMAIN st.vd
            THEN [st EXCEPT !.ed = withX, !.raised = TRUE]
            ELSE At(withX, SourceCentre(st.vd, st.ed[e].s))
    IN IF st.raised THEN st ELSE SetX([st.ed EXCEPT ![e].x = Num(x + (3 * Unit) \div 2)])

\* for i1 in range(start, end) (layout.py:145-164); i1 is Python's index.
RECURSIVE PlaceOutward(_, _, _, _)
PlaceOutward(st, e_layer, x, i1) ==
    IF i1 >= Len(e_layer) THEN st
    ELSE PlaceOutward(
             PlaceEdge(PlaceEdge(st, e_layer[Len(e_layer) - i1], x, "above"),
                       e_layer[i1 + 1], x, "below"),
             e_layer, x, i1 + 1)

\* The edges of one layer (layout.py:129-164): start = ceil(end/2).
PlaceEdges(st, e_layer, x) ==
    LET end == Len(e_layer)
        start == (end + 1) \div 2
        Begin(st0) ==
            IF 2 * start > end
            THEN PlaceOutward(PlaceEdge(st0, e_layer[start], x, "middle"),
                              e_layer, x, start)
            ELSE PlaceOutward(st0, e_layer, x, start)
    IN Begin([st EXCEPT !.max_y = 0, !.min_y = 0])

\* for l in range(len(e_layers)) (layout.py:120-166); l counts from 1.
RECURSIVE LayerLoop(_, _, _, _)
LayerLoop(st, d, x, l) ==
    IF st.raised THEN st
    ELSE IF l > Len(d.e_layers)
         THEN [st EXCEPT !.vd = PlaceVertices(@, d.v_layers[Len(d.v_layers)], x, 1)]
    ELSE LayerLoop(
             PlaceEdges([st EXCEPT !.vd = PlaceVertices(@, d.v_layers[l], x, 1)],
                        d.e_layers[l], x),
             d, x + 3 * Unit, l + 1)

\* layer_layout (layout.py:112-171) on the vertex data vd and edge data ed
\* of a graph whose layer decomposition is d.
layer_layout(vd, ed, d) ==
    LayerLoop([vd |-> vd, ed |-> ed, raised |-> FALSE, max_y |-> 0, min_y |-> 0],
              d, -(((Len(d.v_layers) - 1) * 3 * Unit) \div 2), 1)

\* The rough placement of a layer's edges with the fault of also clearing
\* each edge's label.
RECURSIVE RoughEdges_relabelling(_, _, _, _)
RoughEdges_relabelling(ed, layer, x, i) ==
    IF i > Len(layer) THEN ed
    ELSE RoughEdges_relabelling(
             [ed EXCEPT ![layer[i]].x = Num(x + (3 * Unit) \div 2),
                        ![layer[i]].y = Num(2 * (i - 1) * Unit - (Len(layer) - 1) * Unit),
                        ![layer[i]].value = Str("")],
             layer, x, i + 1)

\* for i, e in enumerate(e_layers[layer]): ed.x = x + 1.5;
\* ed.y = 2 * i - (len(e_layers[layer]) - 1)  (layout.py:46-49)
RECURSIVE RoughEdges(_, _, _, _)
RoughEdges(ed, layer, x, i) ==
    IF i > Len(layer) THEN ed
    ELSE RoughEdges(
             [ed EXCEPT ![layer[i]].x = Num(x + (3 * Unit) \div 2),
                        ![layer[i]].y = Num(2 * (i - 1) * Unit - (Len(layer) - 1) * Unit)],
             layer, x, i + 1)

\* The first loop of convex_layout (layout.py:39-50); layer counts from 1.
\* Inner vertex layers are moved left by 0.8.
RECURSIVE RoughLoop(_, _, _, _)
RoughLoop(st, d, x, layer) ==
    LET Placed(vd) ==
            IF layer > Len(d.e_layers) THEN [st EXCEPT !.vd = vd]
            ELSE RoughLoop([st EXCEPT !.vd = vd,
                                      !.ed = RoughEdges(@, d.e_layers[layer], x, 1)],
                           d, x + 3 * Unit, layer + 1)
    IN IF layer > Len(d.v_layers) THEN st
       ELSE Placed(PlaceVertices(st.vd, d.v_layers[layer],
                                 IF layer = 1 \/ layer = Len(d.v_layers)
                                 THEN x ELSE x - (4 * Unit) \div 5,
                                 1))

(***************************************************************************)
(* problem.solve() (layout.py:91) is cvxpy's: its result is either no      *)
(* solution (vy.value is None and layout.py:95 raises TypeError) or some   *)
(* y for every vertex and edge.  The model takes the solutions that put    *)
(* vertex/edge number k at k * step, for the steps of Steps.               *)
(***************************************************************************)
Steps == {0, Unit}
Solutions == {[solved |-> FALSE, step |-> 0]} \cup {[solved |-> TRUE, step |-> c] : c \in Steps}

\* The edges the second loop visits (layout.py:66-87) and whether
\* vtab[v] raises KeyError for one of their sources or targets.
LoopEdges(d) ==
    UNION {{d.e_layers[k][i] : i \in 1..Len(d.e_layers[k])} :
              k \in 1..Min(Len(d.v_layers), Len(d.e_layers))}
UnknownEndpoint(vd, ed, d) ==
    \E e \in LoopEdges(d) :
        \E k \in 1..Len(source(ed, e) \o target(ed, e)) :
            (source(ed, e) \o target(ed, e))[k] \notin DOMAIN vd

\* layout.py:92-109: the vertices take the solver's y, shifted so that
\* their range is centred on 0; the edges take theirs with the same shift.
Centred(st, sol) ==
    LET ys == {sol.step * v : v \in DOMAIN st.vd}
        Shift(yshift) ==
            [st EXCEPT !.vd = [v \in DOMAIN st.vd |->
                                  [st.vd[v] EXCEPT !.y = Num(sol.step * v - yshift)]],
                       !.ed = [e \in DOMAIN st.ed |->
                                  [st.ed[e] EXCEPT !.y = Num(sol.step * e - yshift)]]]
    IN Shift(((CHOOSE a \in ys : \A b \in ys : a <= b)
              + (CHOOSE a \in ys : \A b \in ys : a >= b)) \div 2)

\* convex_layout (layout.py:27-109) on the vertex data vd and edge data ed of
\* a graph whose layer decomposition is d, when the solver returns sol.
convex_layout(vd, ed, d, sol) ==
    LET Solve(st) ==
            IF DOMAIN vd = {} \/ DOMAIN ed = {} THEN st
            ELSE IF UnknownEndpoint(vd, ed, d) \/ ~sol.solved
                 THEN [st EXCEPT !.raised = TRUE]
            ELSE Centred(st, sol)
    IN Solve(RoughLoop([vd |-> vd, ed |-> ed, raised |-> FALSE, max_y |-> 0,
                        min_y |-> 0],
                       d, -(((Len(d.v_layers) - 1) * 3 * Unit) \div 2), 1))

\* The two layouts as operations on a Graph instance.
Layout(g, name, after) ==
    /\ vdata' = [vdata EXCEPT ![g] = after.vd]
    /\ edata' = [edata EXCEPT ![g] = after.ed]
    /\ gcall' = [op |-> name, g |-> g, raised |-> after.raised, ret |-> 0,
                 s |-> <<>>, t |-> <<>>, value |-> Str(""), clean |-> gcall.clean]
    /\ UNCHANGED <<vindex, eindex, setobj>>
    /\ UNCHANGED stateVars
ConvexLayout ==
    /\ gcall.op \notin {"convex_layout", "layer_layout"}
    /\ \E g \in GraphIds : \E d \in layer_decomp(g), sol \in Solutions :
           Layout(g, "convex_layout", convex_layout(vdata[g], edata[g], d, sol))
LayerLayout ==
    /\ gcall.op \notin {"convex_layout", "layer_layout"}
    /\ \E g \in GraphIds : \E d \in layer_decomp(g) :
           Layout(g, "layer_layout", layer_layout(vdata[g], edata[g], d))

\* The graphs the layouts are run on: the first Graph instance is given
\* vertices, hyperedges from vertex 0 or from nothing to vertex 1 or to
\* nothing, and simple edges from 0 to 1, added in any order, so that an
\* endpoint may be missing; the second instance stays empty.
BuildVertex ==
    /\ gcall.op \notin {"convex_layout", "layer_layout"}
    /\ add_vertex("g1", Num(0), Num(0), Str(""))
BuildEdge ==
    /\ gcall.op \notin {"convex_layout", "layer_layout"}
    /\ \E s \in {<<>>, <<0>>}, t \in {<<>>, <<1>>}, value \in EdgeValues :
           add_edge("g1", s, t, Num(0), Num(0), value)
BuildSimpleEdge ==
    /\ gcall.op \notin {"convex_layout", "layer_layout"}
    /\ \E value \in EdgeValues : add_simple_edge("g1", 0, 1, value)
LayoutNext == BuildVertex \/ BuildEdge \/ BuildSimpleEdge \/ ConvexLayout \/ LayerLayout

(***************************************************************************)
(*                     src/chyp/state.py                                   *)
(*                                                                         *)
(* A source text is a sequence of lexemes whose concatenation is the text: *)
(* the terminals of the grammar (state.py:13-40), the ignored characters   *)
(* " " and "\n", and characters no terminal matches.                       *)
(***************************************************************************)
Keywords == {"gen", "let", "rule", "rewrite", "by", "sw", "id"}
Punctuation == {":", "->", "=", "*", ";", "(", ")", "[", "]", ",", "?"}
Digits == <<"0", "1", "2", "3", "4", "5", "6", "7", "8", "9">>
IntLexemes == {Digits[i] : i \in 1..Len(Digits)}
CNames == {"f", "g", "x", "y", "p", "r", "w"}

\* int(items[0]) on an INT token (state.py:87) and str(i) (state.py:160).
IntOf(s) == (CHOOSE i \in 1..Len(Digits) : Digits[i] = s) - 1
StrOf(n) == Digits[n + 1]

\* The terminal a lexeme is an instance of; "BAD" when there is none.
TokenType(text) ==
    IF text \in Keywords \cup Punctuation THEN text
    ELSE IF text \in IntLexemes THEN "INT"
    ELSE IF text \in CNames THEN "CNAME"
    ELSE "BAD"

(***************************************************************************)
(* The lexer: tokens with their start offset, end offset (exclusive) and   *)
(* line, as Lark records them with propagate_positions=True                *)
(* (state.py:40); " " and "\n" are %ignore'd (state.py:36-37).             *)
(***************************************************************************)
RECURSIVE Lex(_, _, _, _, _)
Lex(code, i, pos, line, acc) ==
    IF i > Len(code) THEN acc
    ELSE IF code[i] = " " THEN Lex(code, i + 1, pos + 1, line, acc)
    ELSE IF code[i] = "\n" THEN Lex(code, i + 1, pos + 1, line + 1, acc)
    ELSE Lex(code, i + 1, pos + Len(code[i]), line,
             Append(acc, [type |-> TokenType(code[i]), text |-> code[i],
                          start_pos |-> pos, end_pos |-> pos + Len(code[i]),
                          line |-> line]))

(***************************************************************************)
(* The parser of the grammar (state.py:13-40).  A parse tree is the        *)
(* sequence of its rule nodes in post-order, the order in which the LALR   *)
(* parser reduces them and in which Transformer calls the callbacks.       *)
(* Each node carries its rule, its kept token (CNAME or INT) if any, the   *)
(* number n of child nodes, and the meta of the node: line, start_pos of   *)
(* its first token and end_pos of its last token.  Rules marked ? and the  *)
(* parenthesised term add no node.  The grammar's shift/reduce conflicts   *)
(* (a ; b ; c and a * b * c) are resolved as shift, so both operators      *)
(* nest to the right and * binds tighter than ;.                           *)
(*                                                                         *)
(* A parse fails at the first token that continues no sentence: the end    *)
(* of the text ("$END", with the line of the last token), a character no   *)
(* terminal matches (UnexpectedCharacters), or a terminal                  *)
(* (UnexpectedToken).                                                      *)
(***************************************************************************)
NoError == [kind |-> "none", line |-> 0]
POk(i, nodes) == [ok |-> TRUE, i |-> i, nodes |-> nodes, err |-> NoError]
PFail(toks, i) ==
    [ok |-> FALSE, i |-> i, nodes |-> <<>>,
     err |-> IF i > Len(toks)
             THEN [kind |-> "$END",
                   line |-> IF toks = <<>> THEN 1 ELSE toks[Len(toks)].line]
             ELSE IF toks[i].type = "BAD"
                  THEN [kind |-> "UnexpectedCharacters", line |-> toks[i].line]
             ELSE [kind |-> "UnexpectedToken", line |-> toks[i].line]]
TokType(toks, i) == IF i > Len(toks) THEN "$END" ELSE toks[i].type

\* The node of a rule whose tokens are toks[first] .. toks[next - 1].
Node(rule, text, n, toks, first, next) ==
    [rule |-> rule, text |-> text, n |-> n, line |-> toks[first].line,
     start_pos |-> toks[first].start_pos, end_pos |-> toks[next - 1].end_pos]

\* The first position among i, i+1, ... whose token is not the expected
\* terminal; 0 when all of types are there.
RECURSIVE FirstMismatch(_, _, _, _)
FirstMismatch(toks, i, types, k) ==
    IF k > Len(types) THEN 0
    ELSE IF TokType(toks, i + k - 1) # types[k] THEN i + k - 1
    ELSE FirstMismatch(toks, i, types, k + 1)

\* num ("," num)* "]"
RECURSIVE PNumList(_, _)
PNumList(toks, i) ==
    LET n == Node("num", toks[i].text, 0, toks, i, i + 1)
        Rest(r) == IF r.ok THEN POk(r.i, <<n>> \o r.nodes) ELSE r
    IN IF TokType(toks, i) # "INT" THEN PFail(toks, i)
       ELSE IF TokType(toks, i + 1) = "," THEN Rest(PNumList(toks, i + 2))
       ELSE IF TokType(toks, i + 1) = "]" THEN POk(i + 2, <<n>>)
       ELSE PFail(toks, i + 1)

\* perm : "sw" [ "[" num ("," num)* "]" ]
PPerm(toks, i) ==
    LET Close(r) ==
            IF r.ok
            THEN POk(r.i, r.nodes \o <<Node("perm", "", Len(r.nodes), toks, i, r.i)>>)
            ELSE r
    IN IF TokType(toks, i + 1) = "[" THEN Close(PNumList(toks, i + 2))
       ELSE POk(i + 1, <<Node("perm", "", 0, toks, i, i + 1)>>)

RECURSIVE PTerm(_, _), PParTerm(_, _), PAtom(_, _)
\* "(" term ")" | perm | id | term_ref
PAtom(toks, i) ==
    LET ty == TokType(toks, i)
        Paren(r) ==
            IF ~r.ok THEN r
            ELSE IF TokType(toks, r.i) = ")" THEN POk(r.i + 1, r.nodes)
            ELSE PFail(toks, r.i)
    IN IF ty = "(" THEN Paren(PTerm(toks, i + 1))
       ELSE IF ty = "sw" THEN PPerm(toks, i)
       ELSE IF ty = "id" THEN POk(i + 1, <<Node("id", "", 0, toks, i, i + 1)>>)
       ELSE IF ty = "CNAME"
            THEN POk(i + 1, <<Node("term_ref", toks[i].text, 0, toks, i, i + 1)>>)
       ELSE PFail(toks, i)

\* ?par_term, with par : par_term "*" par_term
PParTerm(toks, i) ==
    LET Right(a, b) ==
            IF ~b.ok THEN b
            ELSE POk(b.i, a.nodes \o b.nodes \o <<Node("par", "", 2, toks, i, b.i)>>)
        Left(a) ==
            IF ~a.ok THEN a
            ELSE IF TokType(toks, a.i) = "*" THEN Right(a, PParTerm(toks, a.i + 1))
            ELSE a
    IN Left(PAtom(toks, i))

\* ?term, with seq : term ";" term
PTerm(toks, i) ==
    LET Right(a, b) ==
            IF ~b.ok THEN b
            ELSE POk(b.i, a.nodes \o b.nodes \o <<Node("seq", "", 2, toks, i, b.i)>>)
        Left(a) ==
            IF ~a.ok THEN a
            ELSE IF TokType(toks, a.i) = ";" THEN Right(a, PTerm(toks, a.i + 1))
            ELSE a
    IN Left(PParTerm(toks, i))

\* gen : "gen" var ":" num "->" num
PGen(toks, i) ==
    LET bad == FirstMismatch(toks, i, <<"gen", "CNAME", ":", "INT", "->", "INT">>, 1)
    IN IF bad # 0 THEN PFail(toks, bad)
       ELSE POk(i + 6, <<Node("var", toks[i + 1].text, 0, toks, i + 1, i + 2),
                         Node("num", toks[i + 3].text, 0, toks, i + 3, i + 4),
                         Node("num", toks[i + 5].text, 0, toks, i + 5, i + 6),
                         Node("gen", "", 3, toks, i, i + 6)>>)

\* let : "let" var "=" term
PLet(toks, i) ==
    LET bad == FirstMismatch(toks, i, <<"let", "CNAME", "=">>, 1)
        Body(t) ==
            IF ~t.ok THEN t
            ELSE POk(t.i, <<Node("var", toks[i + 1].text, 0, toks, i + 1, i + 2)>>
                          \o t.nodes \o <<Node("let", "", 2, toks, i, t.i)>>)
    IN IF bad # 0 THEN PFail(toks, bad) ELSE Body(PTerm(toks, i + 3))

\* rule : "rule" var ":" term "=" term
PRule(toks, i) ==
    LET bad == FirstMismatch(toks, i, <<"rule", "CNAME", ":">>, 1)
        Rhs(l, r) ==
            IF ~r.ok THEN r
            ELSE POk(r.i, <<Node("var", toks[i + 1].text, 0, toks, i + 1, i + 2)>>
                          \o l.nodes \o r.nodes
                          \o <<Node("rule", "", 3, toks, i, r.i)>>)
        Lhs(l) ==
            IF ~l.ok THEN l
            ELSE IF TokType(toks, l.i) # "=" THEN PFail(toks, l.i)
            ELSE Rhs(l, PTerm(toks, l.i + 1))
    IN IF bad # 0 THEN PFail(toks, bad) ELSE Lhs(PTerm(toks, i + 3))

\* rewrite_part : "=" term_hole "by" rule_ref num?  with term_hole : term | "?"
PRewritePart(toks, i) ==
    LET Hole(t) ==
            IF ~t.ok THEN t
            ELSE POk(t.i, t.nodes \o <<Node("term_hole", "", 1, toks, i + 1, t.i)>>)
        By(hole, j) ==
            LET bad == FirstMismatch(toks, j, <<"by", "CNAME">>, 1)
                ref == Node("rule_ref", toks[j + 1].text, 0, toks, j + 1, j + 2)
            IN IF ~hole.ok THEN hole
               ELSE IF bad # 0 THEN PFail(toks, bad)
               ELSE IF TokType(toks, j + 2) = "INT"
                    THEN POk(j + 3, hole.nodes
                                \o <<ref,
                                     Node("num", toks[j + 2].text, 0, toks, j + 2, j + 3),
                                     Node("rewrite_part", "", 3, toks, i, j + 3)>>)
               ELSE POk(j + 2, hole.nodes
                                \o <<ref, Node("rewrite_part", "", 2, toks, i, j + 2)>>)
        After(hole) == By(hole, hole.i)
    IN IF TokType(toks, i) # "=" THEN PFail(toks, i)
       ELSE After(IF TokType(toks, i + 1) = "?"
                  THEN POk(i + 2, <<Node("term_hole", "", 0, toks, i + 1, i + 2)>>)
                  ELSE Hole(PTerm(toks, i + 1)))

\* rewrite_part+
RECURSIVE PRewriteParts(_, _)
PRewriteParts(toks, i) ==
    LET More(p, rest) ==
            IF ~rest.ok THEN rest ELSE POk(rest.i, p.nodes \o rest.nodes)
        First(p) ==
            IF ~p.ok THEN p
            ELSE IF TokType(toks, p.i) = "=" THEN More(p, PRewriteParts(toks, p.i))
            ELSE p
    IN First(PRewritePart(toks, i))

\* rewrite : "rewrite" var ":" term rewrite_part+
PRewrite(toks, i) ==
    LET bad == FirstMismatch(toks, i, <<"rewrite", "CNAME", ":">>, 1)
        Parts(t, ps) ==
            IF ~ps.ok THEN ps
            ELSE POk(ps.i,
                     <<Node("var", toks[i + 1].text, 0, toks, i + 1, i + 2)>>
                     \o t.nodes \o ps.nodes
                     \o <<Node("rewrite", "",
                               2 + Cardinality({j \in 1..Len(ps.nodes) :
                                                  ps.nodes[j].rule = "rewrite_part"}),
                               toks, i, ps.i)>>)
        Term(t) == IF ~t.ok THEN t ELSE Parts(t, PRewriteParts(toks, t.i))
    IN IF bad # 0 THEN PFail(toks, bad) ELSE Term(PTerm(toks, i + 3))

\* ?statement : gen | let | rule | rewrite
PStatement(toks, i) ==
    LET ty == TokType(toks, i)
    IN IF ty = "gen" THEN PGen(toks, i)
       ELSE IF ty = "let" THEN PLet(toks, i)
       ELSE IF ty = "rule" THEN PRule(toks, i)
       ELSE IF ty = "rewrite" THEN PRewrite(toks, i)
       ELSE PFail(toks, i)

\* start : statement*
RECURSIVE PStart(_, _, _, _)
PStart(toks, i, nodes, count) ==
    LET More(s) ==
            IF ~s.ok THEN s ELSE PStart(toks, s.i, nodes \o s.nodes, count + 1)
    IN IF i > Len(toks)
       THEN POk(i, Append(nodes, [rule |-> "start", text |-> "", n |-> count,
                                  line |-> 1, start_pos |-> 0, end_pos |-> 0]))
       ELSE More(PStatement(toks, i))

\* grammar.parse(code) (state.py:52)
Parse(code) == PStart(Lex(code, 1, 0, 1, <<>>), 1, <<>>, 0)

(***************************************************************************)
(* The term algebra state.py imports from .graph and .rule (state.py:4-5): *)
(* gen, perm, identity, Graph.__mul__, Graph.__rshift__, GraphError, Rule  *)
(* and RuleError.  A graph is represented by its type dom -> cod and the   *)
(* term that built it (body, in prefix notation); NoGraph is Python's None *)
(* where the code has Optional[Graph].                                     *)
(***************************************************************************)
NoGraph == [dom |-> -1, cod |-> -1, body |-> <<>>]

gen(name, arity, coarity) == [dom |-> arity, cod |-> coarity, body |-> <<name>>]

identity == [dom |-> 1, cod |-> 1, body |-> <<"id">>]

\* perm(p): a GraphError unless p is a permutation of 0 .. len(p)-1.
perm(p) ==
    IF {p[i] : i \in 1..Len(p)} = 0..(Len(p) - 1)
    THEN [ok |-> TRUE, msg |-> "",
          graph |-> [dom |-> Len(p), cod |-> Len(p),
                     body |-> <<"sw">> \o [i \in 1..Len(p) |-> StrOf(p[i])]]]
    ELSE [ok |-> FALSE, msg |-> "GraphError", graph |-> NoGraph]

\* g1 * g2: always succeeds.
GraphMul(g1, g2) ==
    [dom |-> g1.dom + g2.dom, cod |-> g1.cod + g2.cod,
     body |-> <<"*">> \o g1.body \o g2.body]

\* g1 >> g2: a GraphError unless len(codomain(g1)) = len(domain(g2)).
GraphRshift(g1, g2) ==
    IF g1.cod = g2.dom
    THEN [ok |-> TRUE, msg |-> "",
          graph |-> [dom |-> g1.dom, cod |-> g2.cod,
                     body |-> <<";">> \o g1.body \o g2.body]]
    ELSE [ok |-> FALSE, msg |-> "GraphError", graph |-> NoGraph]

\* Rule(lhs, rhs): a RuleError unless both arities agree.
Rule(lhs, rhs) ==
    IF lhs.dom = rhs.dom /\ lhs.cod = rhs.cod
    THEN [ok |-> TRUE, msg |-> "", rule |-> [lhs |-> lhs, rhs |-> rhs]]
    ELSE [ok |-> FALSE, msg |-> "RuleError", rule |-> [lhs |-> lhs, rhs |-> rhs]]

(***************************************************************************)
(* The values the callbacks of ChypTransformer pass up the tree.           *)
(***************************************************************************)
Value(kind, str, num, graph, list) ==
    [kind |-> kind, str |-> str, num |-> num, graph |-> graph, parts |-> list]
VStr(s) == Value("str", s, 0, NoGraph, <<>>)
VNum(n) == Value("int", "", n, NoGraph, <<>>)
VGraph(g) == Value("graph", "", 0, g, <<>>)      \* a Graph, or None (NoGraph)
VNone == VGraph(NoGraph)
VParts(list) == Value("parts", "", 0, NoGraph, list)
VTuple(end) == Value("tuple", "", end, NoGraph, <<>>)  \* (end_pos, ...) of rewrite_part
VTree(s) == Value("tree", s, 0, NoGraph, <<>>)   \* a rule without a callback

\* bool(x) of an Optional[Graph]: Graph defines neither __bool__ nor __len__.
Truthy(v) == v.kind = "graph" /\ v.graph # NoGraph

\* ChypTransformer.__init__ (state.py:74-78)
NewTransformer == [graphs |-> <<>>, rules |-> <<>>, rewrites |-> <<>>, errors |-> <<>>]

Return(tran, val) == [tran |-> tran, val |-> val]
AddError(tran, line, msg) == [tran EXCEPT !.errors = Append(@, <<line, msg>>)]

\* ChypTransformer.start with the fault of concatenating the statements' spans
\* last to first.
RECURSIVE FlattenReversed(_, _)
FlattenReversed(items, i) ==
    IF i > Len(items) THEN <<>> ELSE FlattenReversed(items, i + 1) \o items[i].parts
ChypTransformer_start_reversed(tran, meta, items) ==
    Return(tran, VParts(FlattenReversed(items, 1)))

\* ChypTransformer.start (state.py:80-81)
RECURSIVE Flatten(_, _)
Flatten(items, i) ==
    IF i > Len(items) THEN <<>> ELSE items[i].parts \o Flatten(items, i + 1)
ChypTransformer_start(tran, meta, items) == Return(tran, VParts(Flatten(items, 1)))

\* ChypTransformer.var (state.py:83-84)
ChypTransformer_var(tran, meta, items) == Return(tran, VStr(items[1].str))

\* ChypTransformer.num (state.py:86-87)
ChypTransformer_num(tran, meta, items) == Return(tran, VNum(IntOf(items[1].str)))

\* ChypTransformer.id (state.py:89-90)
ChypTransformer_id(tran, meta, items) == Return(tran, VGraph(identity))

\* ChypTransformer.perm (state.py:92-100)
ChypTransformer_perm(tran, meta, items) ==
    LET r == IF items[1] = VNone THEN perm(<<1, 0>>)
             ELSE perm([i \in 1..Len(items) |-> items[i].num])
    IN IF r.ok THEN Return(tran, VGraph(r.graph))
       ELSE Return(AddError(tran, meta.line, r.msg), VNone)

\* ChypTransformer.term_ref (state.py:102-109)
ChypTransformer_term_ref(tran, meta, items) ==
    LET s == items[1].str
    IN IF s \in DOMAIN tran.graphs THEN Return(tran, VGraph(tran.graphs[s]))
       ELSE Return(AddError(tran, meta.line, "Undefined term: " \o s), VNone)

\* ChypTransformer.par (state.py:111-115)
ChypTransformer_par(tran, meta, items) ==
    IF Truthy(items[1]) /\ Truthy(items[2])
    THEN Return(tran, VGraph(GraphMul(items[1].graph, items[2].graph)))
    ELSE Return(tran, VNone)

\* ChypTransformer.seq with the fault of reporting an operand that is None as
\* an error of the ; node itself.
ChypTransformer_seq_strict(tran, meta, items) ==
    IF Truthy(items[1]) /\ Truthy(items[2])
    THEN LET r == GraphRshift(items[1].graph, items[2].graph)
         IN IF r.ok THEN Return(tran, VGraph(r.graph))
            ELSE Return(AddError(tran, meta.line, r.msg), VNone)
    ELSE Return(AddError(tran, meta.line, "GraphError"), VNone)

\* ChypTransformer.seq (state.py:117-125)
ChypTransformer_seq(tran, meta, items) ==
    IF Truthy(items[1]) /\ Truthy(items[2])
    THEN LET r == GraphRshift(items[1].graph, items[2].graph)
         IN IF r.ok THEN Return(tran, VGraph(r.graph))
            ELSE Return(AddError(tran, meta.line, r.msg), VNone)
    ELSE Return(tran, VNone)

\* ChypTransformer.gen with the fault of registering nothing once an earlier
\* statement has recorded an error.
ChypTransformer_gen_blocked(tran, meta, items) ==
    LET name == items[1].str
    IN Return(IF tran.errors = <<>>
              THEN [tran EXCEPT !.graphs =
                        DictSet(@, name, gen(name, items[2].num, items[3].num))]
              ELSE tran,
              VParts(<< <<meta.start_pos, meta.end_pos, "gen", name>> >>))

\* ChypTransformer.gen (state.py:127-131)
ChypTransformer_gen(tran, meta, items) ==
    LET name == items[1].str
    IN Return([tran EXCEPT !.graphs =
                   DictSet(@, name, gen(name, items[2].num, items[3].num))],
              VParts(<< <<meta.start_pos, meta.end_pos, "gen", name>> >>))

\* ChypTransformer.let with the fault of dropping the name's earlier binding
\* when the term is None.
ChypTransformer_let_unbinding(tran, meta, items) ==
    LET name == items[1].str
    IN Return(IF Truthy(items[2])
              THEN [tran EXCEPT !.graphs = DictSet(@, name, items[2].graph)]
              ELSE [tran EXCEPT !.graphs = [u \in (DOMAIN @) \ {name} |-> @[u]]],
              VParts(<< <<meta.start_pos, meta.end_pos, "let", name>> >>))

\* ChypTransformer.let (state.py:133-138)
ChypTransformer_let(tran, meta, items) ==
    LET name == items[1].str
    IN Return(IF Truthy(items[2])
              THEN [tran EXCEPT !.graphs = DictSet(@, name, items[2].graph)]
              ELSE tran,
              VParts(<< <<meta.start_pos, meta.end_pos, "let", name>> >>))

\* ChypTransformer.rule (state.py:140-148)
ChypTransformer_rule(tran, meta, items) ==
    LET name == items[1].str
        r == Rule(items[2].graph, items[3].graph)
    IN Return(IF Truthy(items[2]) /\ Truthy(items[3])
              THEN IF r.ok THEN [tran EXCEPT !.rules = DictSet(@, name, r.rule)]
                   ELSE AddError(tran, meta.line, r.msg)
              ELSE tran,
              VParts(<< <<meta.start_pos, meta.end_pos, "rule", name>> >>))

\* The loop of ChypTransformer.rewrite with the fault of never moving start
\* to the end of the part just added.
RECURSIVE RewriteSpans_restarting(_, _, _, _)
RewriteSpans_restarting(name, rw_parts, i, start) ==
    IF i > Len(rw_parts) THEN <<>>
    ELSE LET end == rw_parts[i].num
         IN << <<start, end, "rewrite", name \o ":" \o StrOf(i - 1)>> >>
            \o RewriteSpans_restarting(name, rw_parts, i + 1, start)

\* ChypTransformer.rewrite (state.py:150-162): the loop over rw_parts.
RECURSIVE RewriteSpans(_, _, _, _)
RewriteSpans(name, rw_parts, i, start) ==
    IF i > Len(rw_parts) THEN <<>>
    ELSE LET end == rw_parts[i].num
         IN << <<start, end, "rewrite", name \o ":" \o StrOf(i - 1)>> >>
            \o RewriteSpans(name, rw_parts, i + 1, end)
ChypTransformer_rewrite(tran, meta, items) ==
    Return(tran, VParts(RewriteSpans(items[1].str, SubSeq(items, 3, Len(items)),
                                     1, meta.start_pos)))

\* ChypTransformer.rewrite_part (state.py:165-170)
ChypTransformer_rewrite_part(tran, meta, items) == Return(tran, VTuple(meta.end_pos))

\* ChypTransformer.term_hole (state.py:173-176)
ChypTransformer_term_hole(tran, meta, items) ==
    Return(tran, Value("tuple", "", meta.end_pos,
                       IF Len(items) # 0 THEN items[1].graph ELSE NoGraph, <<>>))

\* Transformer's dispatch: the method named after the rule, or the tree as is.
Callback(tran, meta, items) ==
    CASE meta.rule = "start" -> ChypTransformer_start(tran, meta, items)
      [] meta.rule = "var" -> ChypTransformer_var(tran, meta, items)
      [] meta.rule = "num" -> ChypTransformer_num(tran, meta, items)
      [] meta.rule = "id" -> ChypTransformer_id(tran, meta, items)
      [] meta.rule = "perm" -> ChypTransformer_perm(tran, meta, items)
      [] meta.rule = "term_ref" -> ChypTransformer_term_ref(tran, meta, items)
      [] meta.rule = "par" -> ChypTransformer_par(tran, meta, items)
      [] meta.rule = "seq" -> ChypTransformer_seq(tran, meta, items)
      [] meta.rule = "gen" -> ChypTransformer_gen(tran, meta, items)
      [] meta.rule = "let" -> ChypTransformer_let(tran, meta, items)
      [] meta.rule = "rule" -> ChypTransformer_rule(tran, meta, items)
      [] meta.rule = "rewrite" -> ChypTransformer_rewrite(tran, meta, items)
      [] meta.rule = "rewrite_part" -> ChypTransformer_rewrite_part(tran, meta, items)
      [] meta.rule = "term_hole" -> ChypTransformer_term_hole(tran, meta, items)
      [] OTHER -> Return(tran, VTree(meta.text))

(***************************************************************************)
(* The children a callback receives: the values of the node's n child      *)
(* nodes, the node's kept token for a rule that is one CNAME or INT, and   *)
(* the None placeholder of the absent [...] of a bare "sw".                *)
(***************************************************************************)
Items(node, stack) ==
    IF node.text # "" THEN <<VStr(node.text)>>
    ELSE IF node.rule = "perm" /\ node.n = 0 THEN <<VNone>>
    ELSE SubSeq(stack, Len(stack) - node.n + 1, Len(stack))

\* tran.transform(tree) (state.py:54): bottom-up, children left to right.
RECURSIVE Transform(_, _, _, _)
Transform(nodes, i, tran, stack) ==
    LET Step(node, r) ==
            Transform(nodes, i + 1, r.tran,
                      Append(SubSeq(stack, 1, Len(stack) - node.n), r.val))
    IN IF i > Len(nodes) THEN [tran |-> tran, parts |-> stack[1].parts]
       ELSE Step(nodes[i], Callback(tran, nodes[i], Items(nodes[i], stack)))

(***************************************************************************)
(* The source texts update is called with.  A well-formed text is up to    *)
(* MaxStmts statements of Statements, one per line; the sixth statement is *)
(* indented by one space.  A malformed text is nothing or one statement    *)
(* followed by a line the grammar rejects.                                 *)
(***************************************************************************)
RECURSIVE Spaced(_, _)
Spaced(words, i) ==
    IF i > Len(words) THEN <<>>
    ELSE IF i = Len(words) THEN <<words[i]>>
    ELSE <<words[i], " ">> \o Spaced(words, i + 1)

Statements ==
    << Spaced(<<"gen", "f", ":", "1", "->", "1">>, 1),
       Spaced(<<"gen", "g", ":", "2", "->", "1">>, 1),
       Spaced(<<"let", "f", "=", "f", "*", "f">>, 1),
       Spaced(<<"let", "f", "=", "id", ";", "sw">>, 1),
       Spaced(<<"let", "x", "=", "y", "*", "g", ";", "y">>, 1),
       <<" ">> \o Spaced(<<"let", "p", "=", "sw", "[", "0", ",", "0", "]">>, 1),
       Spaced(<<"rule", "r", ":", "f", "=", "sw">>, 1),
       Spaced(<<"rewrite", "w", ":", "f", "=", "?", "by", "r",
                "=", "(", "f", ")", "by", "r", "1">>, 1),
       Spaced(<<"rule", "r", ":", "sw", "[", "1", ",", "0", "]", ";", "sw",
                "=", "id", "*", "id">>, 1),
       Spaced(<<"rewrite", "w", ":", "f", "=", "f", "by", "r">>, 1) >>

RECURSIVE JoinLines(_, _)
JoinLines(lines, i) ==
    IF i > Len(lines) THEN <<>>
    ELSE IF i = Len(lines) THEN lines[i]
    ELSE lines[i] \o <<"\n">> \o JoinLines(lines, i + 1)

\* The text whose lines are the statements numbered by picks.
TextOf(picks) == JoinLines([i \in 1..Len(picks) |-> Statements[picks[i]]], 1)

GoodCodes == {TextOf(picks) : picks \in SeqsUpTo(1..Len(Statements), MaxStmts)}

BadLines ==
    { Spaced(<<"gen", "f", ":">>, 1),               \* the text ends too early
      Spaced(<<"let", "=", "x">>, 1),               \* a terminal out of place
      Spaced(<<"let", "x", "=", "#", "f">>, 1) }    \* no terminal matches #
BadCodes == BadLines \cup {JoinLines(<<Statements[1], bad>>, 1) : bad \in BadLines}

Codes == GoodCodes \cup BadCodes

\* The try block of update (state.py:52-54) for each text of Codes.
Compile(code) ==
    LET Done(tree, t) ==
            [ok |-> TRUE, err |-> tree.err, graphs |-> t.tran.graphs,
             rules |-> t.tran.rules, parts |-> t.parts, errors |-> t.tran.errors]
        Parsed(tree) ==
            IF tree.ok THEN Done(tree, Transform(tree.nodes, 1, NewTransformer, <<>>))
            ELSE [ok |-> FALSE, err |-> tree.err, graphs |-> <<>>, rules |-> <<>>,
                  parts |-> <<>>, errors |-> <<>>]
    IN Parsed(Parse(code))
Compiled == [code \in Codes |-> Compile(code)]

\* State.update with the fault of publishing empty tables when the parse
\* fails.
update_resetting(self, code, atEnd) ==
    LET Result(r) ==
            IF r.ok
            THEN [self EXCEPT !.graphs = r.graphs, !.rules = r.rules,
                              !.parts = r.parts, !.errors = r.errors]
            ELSE [self EXCEPT !.graphs = <<>>, !.rules = <<>>, !.parts = <<>>,
                              !.errors = << <<r.err.line, atEnd>> >>]
    IN Result(Compiled[code])

\* State.update with the fault of merging the new graphs into the previous
\* ones instead of replacing them.
update_merging(self, code, atEnd) ==
    LET Merge(old, new) ==
            [k \in (DOMAIN old) \cup (DOMAIN new) |->
                IF k \in DOMAIN new THEN new[k] ELSE old[k]]
        Result(r) ==
            IF r.ok
            THEN [self EXCEPT !.graphs = Merge(self.graphs, r.graphs),
                              !.rules = r.rules,
                              !.parts = r.parts, !.errors = r.errors]
            ELSE IF r.err.kind = "$END" /\ atEnd = "UnexpectedEOF"
                 THEN [self EXCEPT !.errors = << <<-1, "UnexpectedEOF">> >>]
            ELSE IF r.err.kind = "$END"
                 THEN [self EXCEPT !.errors = << <<r.err.line, "UnexpectedToken">> >>]
            ELSE [self EXCEPT !.errors = << <<r.err.line, r.err.kind>> >>]
    IN Result(Compiled[code])

(***************************************************************************)
(* State.update (state.py:50-65) as a function of the State object.        *)
(* str(e) of a Lark exception is represented by the exception's name.      *)
(* Which exception grammar.parse raises for a text that ends too early is  *)
(* Lark's choice, not this code's: UnexpectedEOF, or UnexpectedToken on    *)
(* the $END token, which carries the line of the last token.  update       *)
(* handles both, and atEnd is the one raised.                              *)
(***************************************************************************)
update(self, code, atEnd) ==
    LET Result(r) ==
            IF r.ok
            THEN [self EXCEPT !.graphs = r.graphs, !.rules = r.rules,
                              !.parts = r.parts, !.errors = r.errors]
            ELSE IF r.err.kind = "$END" /\ atEnd = "UnexpectedEOF"
                 THEN [self EXCEPT !.errors = << <<-1, "UnexpectedEOF">> >>]
            ELSE IF r.err.kind = "$END"
                 THEN [self EXCEPT !.errors = << <<r.err.line, "UnexpectedToken">> >>]
            ELSE [self EXCEPT !.errors = << <<r.err.line, r.err.kind>> >>]
    IN Result(Compiled[code])

\* State.part_at with the fault of excluding a span's end offset.
RECURSIVE PartAtFrom_strict(_, _, _)
PartAtFrom_strict(ps, i, pos) ==
    IF i > Len(ps) THEN <<>>
    ELSE IF ps[i][1] <= pos /\ ps[i][2] > pos THEN ps[i]
    ELSE PartAtFrom_strict(ps, i + 1, pos)

\* State.part_at (state.py:67-71); <<>> is None.
RECURSIVE PartAtFrom(_, _, _)
PartAtFrom(ps, i, pos) ==
    IF i > Len(ps) THEN <<>>
    ELSE IF ps[i][1] <= pos /\ ps[i][2] >= pos THEN ps[i]
    ELSE PartAtFrom(ps, i + 1, pos)
part_at(self, pos) == PartAtFrom(self.parts, 1, pos)

\* State.__init__ (state.py:43-48)
NewState == [graphs |-> <<>>, rules |-> <<>>, parts |-> <<>>, holes |-> <<>>,
             errors |-> <<>>]

\* The State object.
Self == [graphs |-> graphs, rules |-> rules, parts |-> parts, holes |-> holes,
         errors |-> errors]

\* The exceptions grammar.parse may raise at a premature end of the text.
EndExceptions == {"UnexpectedEOF", "UnexpectedToken"}

Update(code, atEnd) ==
    /\ LET Assign(new) ==
               /\ graphs' = new.graphs
               /\ rules' = new.rules
               /\ parts' = new.parts
               /\ holes' = new.holes
               /\ errors' = new.errors
       IN Assign(update(Self, code, atEnd))
    /\ scall' = [op |-> "update", code |-> code, pos |-> 0, ret |-> <<>>,
                 loaded |-> graphs # <<>> /\ rules # <<>>]
    /\ UNCHANGED graphVars

\* The offsets part_at is asked about: from before the text to past the
\* last span.
RECURSIVE MaxEnd(_, _)
MaxEnd(ps, i) ==
    IF i > Len(ps) THEN 0
    ELSE LET m == MaxEnd(ps, i + 1) IN IF ps[i][2] > m THEN ps[i][2] ELSE m
Offsets == -1..(MaxEnd(parts, 1) + 1)

PartAt(pos) ==
    /\ scall' = [op |-> "part_at", code |-> scall.code, pos |-> pos,
                 ret |-> part_at(Self, pos), loaded |-> scall.loaded]
    /\ UNCHANGED <<graphs, rules, parts, holes, errors>>
    /\ UNCHANGED graphVars

\* The first update of a State.
Load(code, atEnd) == scall.op = "init" /\ Update(code, atEnd)

\* Which exception the parser raises at the end of the text matters only
\* for a text that ends too early; for the others one choice stands for both.
EndOutcomes(code) ==
    IF Compiled[code].err.kind = "$END" THEN EndExceptions
    ELSE {CHOOSE x \in EndExceptions : TRUE}

StateNext == \E code \in Codes : \E atEnd \in EndOutcomes(code) : Update(code, atEnd)
PartAtNext ==
    \/ \E code \in Codes : \E atEnd \in EndOutcomes(code) : Load(code, atEnd)
    \/ \E pos \in Offsets : PartAt(pos)

(***************************************************************************)
(* The state after construction: Graph.__init__ (graph.py:37-41) for both  *)
(* instances, the module's two default set objects (empty once graph.py    *)
(* has been imported), and State.__init__ (state.py:43-48).                *)
(***************************************************************************)
Init ==
    /\ vdata = [g \in GraphIds |-> <<>>]
    /\ edata = [g \in GraphIds |-> <<>>]
    /\ vindex = [g \in GraphIds |-> 0]
    /\ eindex = [g \in GraphIds |-> 0]
    /\ setobj = [r \in {DefaultInEdges, DefaultOutEdges} |-> {}]
    /\ gcall = [op |-> "init", g |-> "g1", raised |-> FALSE, ret |-> 0,
                s |-> <<>>, t |-> <<>>, value |-> Str(""), clean |-> TRUE]
    /\ graphs = NewState.graphs
    /\ rules = NewState.rules
    /\ parts = NewState.parts
    /\ holes = NewState.holes
    /\ errors = NewState.errors
    /\ scall = [op |-> "init", code |-> <<>>, pos |-> 0, ret |-> <<>>,
                loaded |-> FALSE]

GraphSpec == Init /\ [][GraphNext]_vars
StateSpec == Init /\ [][StateNext]_vars
PartAtSpec == Init /\ [][PartAtNext]_vars
LayoutSpec == Init /\ [][LayoutNext]_vars

(***************************************************************************)
(*                      Properties of Graph                                *)
(***************************************************************************)
Range(list) == {list[i] : i \in 1..Len(list)}

\* The edges of g that list v among their targets / sources.
EdgesInto(g, v) == {e \in edges(g) : v \in Range(edata[g][e].t)}
EdgesOutOf(g, v) == {e \in edges(g) : v \in Range(edata[g][e].s)}

(* C1: after any sequence of add_vertex, add_edge and add_simple_edge calls
   (none of which raised), every vertex v of every graph has in_edges equal
   to the set of edges with v in their target list and out_edges equal to
   the set of edges with v in their source list. *)
C1_EdgeSetsExact ==
    gcall.clean =>
        \A g \in GraphIds : \A v \in vertices(g) :
            /\ in_edges(g, v) = EdgesInto(g, v)
            /\ out_edges(g, v) = EdgesOutOf(g, v)

(* C9: in every reachable state of a Graph, the state left by an add_edge
   call that raised included, every vertex id in a stored edge's source or
   target list is a key of the graph's vertex map. *)
C9_EdgeEndpointsExist ==
    \A g \in GraphIds : \A e \in edges(g) :
        Range(edata[g][e].s) \cup Range(edata[g][e].t) \subseteq vertices(g)

\* What can be observed of the vertices of g: each vertex's fields, with
\* the contents of its in_edges and out_edges.
VertexView(g) ==
    [v \in vertices(g) |->
        [x |-> vdata[g][v].x, y |-> vdata[g][v].y, value |-> vdata[g][v].value,
         in_edges |-> in_edges(g, v), out_edges |-> out_edges(g, v)]]

(* C10: add_vertex, add_edge and add_simple_edge on one Graph instance leave
   the vertex data of every other Graph instance, in_edges and out_edges
   included, unchanged (stated for the calls that return normally). *)
C10_OtherGraphsUntouched ==
    [][\A h \in GraphIds :
          (h # gcall'.g /\ ~gcall'.raised) => VertexView(h)' = VertexView(h)]_vars

(* C12: add_simple_edge(s, t, value), when it returns, has added exactly
   one edge, the one whose id it returns, and that edge is a plain binary
   wire: hyper is False, the source list is [s], the target list is [t], the
   value is the value argument, and x and y are the default 0. *)
C12_SimpleEdgeIsPlainWire ==
    (gcall.op = "add_simple_edge" /\ ~gcall.raised) =>
        /\ edges(gcall.g) = 0..gcall.ret
        /\ eindex[gcall.g] = gcall.ret + 1
        /\ edata[gcall.g][gcall.ret] =
               [EData(gcall.s, gcall.t, Num(0), Num(0), gcall.value)
                   EXCEPT !.hyper = FALSE]

(***************************************************************************)
(*                      Properties of the layouts                          *)
(***************************************************************************)
LayoutOps == {"convex_layout", "layer_layout"}

\* What a layout must leave alone in g: the vertex and edge ids, each
\* vertex's value and the contents of its in_edges and out_edges, each
\* edge's source list, target list, value and hyper flag, and the counters.
Structure(g) ==
    [vertices |-> [v \in vertices(g) |->
                      [value |-> vdata[g][v].value,
                       in_edges |-> in_edges(g, v), out_edges |-> out_edges(g, v)]],
     edges |-> [e \in edges(g) |->
                   [s |-> edata[g][e].s, t |-> edata[g][e].t,
                    value |-> edata[g][e].value, hyper |-> edata[g][e].hyper]],
     vindex |-> vindex[g], eindex |-> eindex[g]]

(* C11: convex_layout(g) and layer_layout(g), whether they return or raise,
   write only the x and y fields of g's vertices and edges: the vertex ids,
   the edge ids, every edge's source and target lists, every value, every
   hyper flag and every vertex's in_edges/out_edges are after the call what
   they were before it. *)
C11_LayoutWritesOnlyXY ==
    [][gcall'.op \in LayoutOps => \A g \in GraphIds : Structure(g)' = Structure(g)]_vars

\* A layout has returned on a graph with two vertices and a labelled edge
\* between them, and has moved a vertex and the edge.
C11_Witness ==
    /\ gcall.op \in LayoutOps
    /\ ~gcall.raised
    /\ vertices(gcall.g) = {0, 1}
    /\ \E e \in edges(gcall.g) :
           /\ edata[gcall.g][e].s = <<0>>
           /\ edata[gcall.g][e].t = <<1>>
           /\ edata[gcall.g][e].value # Str("")
           /\ edata[gcall.g][e].x \notin {Num(0), Str("f")}
    /\ \E v \in vertices(gcall.g) : vdata[gcall.g][v].x # Num(0)

(***************************************************************************)
(*                      Properties of State                                *)
(*                                                                         *)
(* What a source text says is read off the text itself: its lines, the     *)
(* words of a line and the offsets of a line's first and last character.   *)
(* Every line of a well-formed text of Codes is one statement.             *)
(***************************************************************************)
RECURSIVE SplitLines(_, _, _)
SplitLines(code, i, cur) ==
    IF i > Len(code) THEN <<cur>>
    ELSE IF code[i] = "\n" THEN <<cur>> \o SplitLines(code, i + 1, <<>>)
    ELSE SplitLines(code, i + 1, Append(cur, code[i]))
LinesOf(code) == IF code = <<>> THEN <<>> ELSE SplitLines(code, 1, <<>>)
WordsOf(line) == SelectSeq(line, LAMBDA w : w # " ")

\* The number of characters of a sequence of lexemes.
RECURSIVE Width(_, _)
Width(lexemes, i) ==
    IF i > Len(lexemes) THEN 0 ELSE Len(lexemes[i]) + Width(lexemes, i + 1)

\* The offset of the first character of line n.
RECURSIVE LineOffset(_, _)
LineOffset(lines, n) ==
    IF n = 1 THEN 0 ELSE LineOffset(lines, n - 1) + Width(lines[n - 1], 1) + 1

RECURSIVE Indent(_, _)
Indent(line, i) ==
    IF i <= Len(line) /\ line[i] = " " THEN 1 + Indent(line, i + 1) ELSE 0

\* The offsets of the statement on line n: of its first character and just
\* past its last one (no line of Codes ends in a space).
StmtStart(lines, n) == LineOffset(lines, n) + Indent(lines[n], 1)
StmtEnd(lines, n) == LineOffset(lines, n) + Width(lines[n], 1)

\* The kind and the name a statement line declares, and the names its body
\* mentions.
KindOf(line) == WordsOf(line)[1]
NameOf(line) == WordsOf(line)[2]
RefsOf(line) ==
    SelectSeq(SubSeq(WordsOf(line), 4, Len(WordsOf(line))), LAMBDA w : w \in CNames)

\* The text without its line n, and the text cut after line n.
DropLine(lines, n) ==
    JoinLines(SubSeq(lines, 1, n - 1) \o SubSeq(lines, n + 1, Len(lines)), 1)
Prefix(lines, n) == JoinLines(SubSeq(lines, 1, n), 1)

\* The last call was an update with a text that parses.
Parsed == scall.op = "update" /\ scall.code \in GoodCodes

(* C2: an update whose text fails to lex or parse leaves graphs, rules and
   parts exactly as they were before the call and makes errors a list of
   exactly one (line, message) pair, with line -1 when the failure is an
   unexpected end of input; whatever updates came before. *)
C2_FailedUpdateKeepsTables ==
    [][(scall'.op = "update" /\ scall'.code \in BadCodes) =>
          /\ graphs' = graphs
          /\ rules' = rules
          /\ parts' = parts
          /\ Len(errors') = 1
          /\ Len(errors'[1]) = 2
          /\ (errors'[1][2] = "UnexpectedEOF" => errors'[1][1] = -1)]_vars

\* C2's case: a text that ends too early was rejected with UnexpectedEOF
\* after a text that had published graphs and rules, and they are still
\* there.
C2_Witness ==
    /\ scall.op = "update"
    /\ scall.code \in BadCodes
    /\ scall.loaded
    /\ graphs # <<>> /\ rules # <<>> /\ parts # <<>>
    /\ errors = << <<-1, "UnexpectedEOF">> >>

(* C3: an update whose text parses replaces graphs, rules, parts and errors
   wholesale: the State it leaves is the one the same update leaves on a
   freshly constructed State, whatever updates came before, and updating
   once more with the same text changes nothing. *)
C3_UpdateReplacesWholesale ==
    Parsed =>
        \A atEnd \in EndExceptions :
            /\ Self = update(NewState, scall.code, atEnd)
            /\ update(Self, scall.code, atEnd) = Self

\* C3's case: a text with one gen statement was loaded over a State that held
\* graphs and rules, and no rule of the earlier text is left.
C3_Witness ==
    /\ Parsed
    /\ scall.loaded
    /\ scall.code = Statements[2]
    /\ DOMAIN graphs = {"g"}
    /\ rules = <<>>

\* The entries of errors recorded for line n, in the order recorded.
ErrorsAt(n) == SelectSeq(errors, LAMBDA e : e[1] = n)

\* Whether a line before line n declares u (gen u or let u), and whether a
\* gen statement before line n binds u.
NamedBefore(lines, n, u) ==
    \E m \in 1..(n - 1) : KindOf(lines[m]) \in {"gen", "let"} /\ NameOf(lines[m]) = u
GenBefore(lines, n, u) ==
    \E m \in 1..(n - 1) : KindOf(lines[m]) = "gen" /\ NameOf(lines[m]) = u

\* Line n is let x = T where T mentions a name no earlier statement declares,
\* and every other name T mentions is bound by an earlier gen.
UndefinedLet(lines, n) ==
    /\ KindOf(lines[n]) = "let"
    /\ \E k \in 1..Len(RefsOf(lines[n])) : ~NamedBefore(lines, n, RefsOf(lines[n])[k])
    /\ \A k \in 1..Len(RefsOf(lines[n])) :
          \/ ~NamedBefore(lines, n, RefsOf(lines[n])[k])
          \/ GenBefore(lines, n, RefsOf(lines[n])[k])

\* One "Undefined term" entry for each mention in T of an undeclared name.
UndefinedErrors(lines, n) ==
    LET undeclared == SelectSeq(RefsOf(lines[n]),
                                LAMBDA u : ~NamedBefore(lines, n, u))
    IN [k \in 1..Len(undeclared) |-> <<n, "Undefined term: " \o undeclared[k]>>]

(* C4: for a statement let x = T whose term T mentions a name that no
   earlier statement bound, update records exactly one error per undefined
   mention, naming it and carrying the statement's line, and none for the
   enclosing ; and * nodes; the statement registers no graph for x (the
   graphs after it are the graphs before it, and x is in graphs only if
   another statement declares x); and parts holds the statement's span
   (start, end, "let", x). *)
C4_UndefinedReference ==
    Parsed =>
        LET Holds(lines) ==
                \A n \in 1..Len(lines) :
                    UndefinedLet(lines, n) =>
                        /\ ErrorsAt(n) = UndefinedErrors(lines, n)
                        /\ Compiled[Prefix(lines, n)].graphs
                               = Compiled[Prefix(lines, n - 1)].graphs
                        /\ (\A m \in 1..Len(lines) :
                                m # n => ~(/\ KindOf(lines[m]) \in {"gen", "let"}
                                           /\ NameOf(lines[m]) = NameOf(lines[n])))
                           => NameOf(lines[n]) \notin DOMAIN graphs
                        /\ \E i \in 1..Len(parts) :
                               parts[i] = <<StmtStart(lines, n), StmtEnd(lines, n),
                                            "let", NameOf(lines[n])>>
        IN Holds(LinesOf(scall.code))

\* C4's case: gen g : 2 -> 1 followed by let x = y * g ; y, where y is
\* undefined twice under a * and a ; node.
C4_Witness ==
    /\ Parsed
    /\ scall.code = TextOf(<<2, 5>>)
    /\ UndefinedLet(LinesOf(scall.code), 2)
    /\ errors = << <<2, "Undefined term: y">>, <<2, "Undefined term: y">> >>
    /\ DOMAIN graphs = {"g"}
    /\ Len(parts) = 2 /\ parts[2][3] = "let" /\ parts[2][4] = "x"

\* The names a line mentions after its own name.
Mentions(line) ==
    {WordsOf(line)[k] : k \in 3..Len(WordsOf(line))} \cap CNames

\* Statement n recorded an error and no later statement mentions its name.
FailedAlone(lines, n) ==
    /\ ErrorsAt(n) # <<>>
    /\ \A m \in (n + 1)..Len(lines) : NameOf(lines[n]) \notin Mentions(lines[m])

\* errors and parts without what line n contributed, renumbered and shifted
\* to the text without line n.
ErrorsWithout(n) ==
    LET rest == SelectSeq(errors, LAMBDA e : e[1] # n)
    IN [k \in 1..Len(rest) |->
           IF rest[k][1] > n THEN <<rest[k][1] - 1, rest[k][2]>> ELSE rest[k]]
PartsWithout(lines, n) ==
    LET from == LineOffset(lines, n)
        gap == Width(lines[n], 1) + 1
        rest == SelectSeq(parts, LAMBDA q : q[1] < from \/ q[1] >= from + gap)
    IN [k \in 1..Len(rest) |->
           IF rest[k][1] >= from + gap
           THEN <<rest[k][1] - gap, rest[k][2] - gap, rest[k][3], rest[k][4]>>
           ELSE rest[k]]

(* C5: within one update, a semantic error recorded for statement N
   (undefined term, ; arity mismatch, invalid permutation, rule arity
   mismatch) does not stop the statements after it that do not mention N's
   name: graphs and rules are those of the text without statement N, the
   spans of the other statements are emitted as for the text without
   statement N, and the errors recorded for the other statements are those
   of the text without statement N. *)
C5_ErrorDoesNotBlock ==
    Parsed =>
        LET Holds(lines) ==
                \A n \in 1..Len(lines) :
                    FailedAlone(lines, n) =>
                        LET Same(without) ==
                                /\ graphs = without.graphs
                                /\ rules = without.rules
                                /\ PartsWithout(lines, n) = without.parts
                                /\ ErrorsWithout(n) = without.errors
                        IN Same(Compiled[DropLine(lines, n)])
        IN Holds(LinesOf(scall.code))

\* C5's case: let p = sw [ 0 , 0 ] fails with an invalid permutation and the
\* gen statement after it is registered with its span.
C5_Witness ==
    /\ Parsed
    /\ scall.code = TextOf(<<6, 1>>)
    /\ FailedAlone(LinesOf(scall.code), 1)
    /\ errors = << <<1, "GraphError">> >>
    /\ DOMAIN graphs = {"f"}
    /\ Len(parts) = 2 /\ parts[2][3] = "gen"

\* The rules a rewrite line applies: the names that follow "by".
RulesApplied(line) ==
    {WordsOf(line)[k + 1] : k \in {j \in 1..(Len(WordsOf(line)) - 1) :
                                         WordsOf(line)[j] = "by"}}
RuleBefore(lines, n, r) ==
    \E m \in 1..(n - 1) : KindOf(lines[m]) = "rule" /\ NameOf(lines[m]) = r

(* C6: a rewrite statement is checked against the symbol tables: when a
   clause = T by R names a rule R that no earlier statement declares, update
   records an error for that statement. *)
C6_RewriteChecked ==
    Parsed =>
        LET Holds(lines) ==
                \A n \in 1..Len(lines) :
                    (/\ KindOf(lines[n]) = "rewrite"
                     /\ \E r \in RulesApplied(lines[n]) : ~RuleBefore(lines, n, r))
                    => ErrorsAt(n) # <<>>
        IN Holds(LinesOf(scall.code))

\* The spans of the gen, let and rule statements of parts, and the spans the
\* text announces for them, in source order.
DeclaredParts == SelectSeq(parts, LAMBDA q : q[3] \in {"gen", "let", "rule"})
RECURSIVE StmtSpans(_, _)
StmtSpans(lines, n) ==
    IF n > Len(lines) THEN <<>>
    ELSE (IF KindOf(lines[n]) \in {"gen", "let", "rule"}
          THEN << <<StmtStart(lines, n), StmtEnd(lines, n),
                    KindOf(lines[n]), NameOf(lines[n])>> >>
          ELSE <<>>) \o StmtSpans(lines, n + 1)

(* C8: after every update, parts is ordered by start offset
   (non-decreasing), and after an update that parses it holds one span per
   gen, let and rule statement, in source order, whatever mix of statement
   kinds and of failing statements the text contains. *)
C8_PartsOrdered ==
    /\ \A i \in 1..Len(parts) : \A j \in i..Len(parts) : parts[i][1] <= parts[j][1]
    /\ Parsed => DeclaredParts = StmtSpans(LinesOf(scall.code), 1)

\* C8's case: a rewrite with two clauses followed by a let that fails.
C8_Witness ==
    /\ Parsed
    /\ scall.code = TextOf(<<8, 5>>)
    /\ errors # <<>>
    /\ Len(parts) = 3
    /\ parts[1][3] = "rewrite" /\ parts[2][3] = "rewrite" /\ parts[3][3] = "let"

\* The clauses "= ... by R" of a rewrite line begin at its = signs; a clause
\* ends with the last word before the next = sign or before the line's end.
Clauses(line) == SelectSeq([j \in 1..Len(line) |-> j], LAMBDA j : line[j] = "=")
LastWordBefore(line, j) ==
    CHOOSE m \in 1..(j - 1) :
        line[m] # " " /\ \A k \in (m + 1)..(j - 1) : line[k] = " "
ClauseEnd(lines, n, i) ==
    LET eqs == Clauses(lines[n])
        next == IF i < Len(eqs) THEN eqs[i + 1] ELSE Len(lines[n]) + 1
    IN LineOffset(lines, n) + Width(SubSeq(lines[n], 1, LastWordBefore(lines[n], next)), 1)

\* The rewrite spans the text asks for, in source order.
RECURSIVE ClauseSpans(_, _)
ClauseSpans(lines, n) ==
    IF n > Len(lines) THEN <<>>
    ELSE (IF KindOf(lines[n]) = "rewrite"
          THEN [i \in 1..Len(Clauses(lines[n])) |->
                   <<IF i = 1 THEN StmtStart(lines, n) ELSE ClauseEnd(lines, n, i - 1),
                     ClauseEnd(lines, n, i), "rewrite",
                     NameOf(lines[n]) \o ":" \o StrOf(i - 1)>>]
          ELSE <<>>) \o ClauseSpans(lines, n + 1)
RewriteParts == SelectSeq(parts, LAMBDA q : q[3] = "rewrite")

(* C13: after an update that parses, a rewrite statement named w with k
   clauses "= ... by R" has contributed exactly k spans of kind "rewrite" to
   parts, named w:0 .. w:(k-1): the first starts at the statement's start
   offset, span i ends at the end offset of clause i, and span i+1 starts
   where span i ends. *)
C13_RewriteSpansTile ==
    Parsed => RewriteParts = ClauseSpans(LinesOf(scall.code), 1)

\* C13's case: a gen followed by a rewrite with two clauses, whose second
\* span starts where the first ends, short of the second = sign.
C13_Witness ==
    /\ Parsed
    /\ scall.code = TextOf(<<1, 8>>)
    /\ Len(RewriteParts) = 2
    /\ RewriteParts[1][4] = "w:0" /\ RewriteParts[2][4] = "w:1"
    /\ RewriteParts[1][1] = Width(Statements[1], 1) + 1
    /\ RewriteParts[2][1] = RewriteParts[1][2]
    /\ RewriteParts[2][2] = Width(scall.code, 1)

\* The last line up to line upto that binds u: a gen u, or a let u that
\* built (update recorded no error for its line); 0 when there is none.
Binds(lines, m, u) ==
    /\ KindOf(lines[m]) \in {"gen", "let"}
    /\ NameOf(lines[m]) = u
    /\ KindOf(lines[m]) = "let" => ErrorsAt(m) = <<>>
LastBinding(lines, u, upto) ==
    IF \E m \in 1..upto : Binds(lines, m, u)
    THEN CHOOSE m \in 1..upto :
             Binds(lines, m, u) /\ \A k \in (m + 1)..upto : ~Binds(lines, k, u)
    ELSE 0

\* The graph u stands for after lines 1..upto, read off the text: that of
\* its last binding, where gen u : a -> b gives the generator and
\* let u = v * w gives the product of what v and w stand for before that
\* line.  NoGraph when u is unbound or its let has another form.
RECURSIVE Binding(_, _, _)
Binding(lines, u, upto) ==
    LET At(m) ==
            LET w == WordsOf(lines[m])
            IN IF KindOf(lines[m]) = "gen"
               THEN gen(u, IntOf(w[4]), IntOf(w[6]))
               ELSE IF Len(w) = 6 /\ w[4] \in CNames /\ w[5] = "*" /\ w[6] \in CNames
                    THEN GraphMul(Binding(lines, w[4], m - 1), Binding(lines, w[6], m - 1))
               ELSE NoGraph
        Of(m) == IF m = 0 THEN NoGraph ELSE At(m)
    IN Of(LastBinding(lines, u, upto))

\* The last rule r line that built, 0 when there is none.
LastRule(lines, r) ==
    LET Built(m) == /\ KindOf(lines[m]) = "rule" /\ NameOf(lines[m]) = r
                    /\ ErrorsAt(m) = <<>>
    IN IF \E m \in 1..Len(lines) : Built(m)
       THEN CHOOSE m \in 1..Len(lines) :
                Built(m) /\ \A k \in (m + 1)..Len(lines) : ~Built(k)
       ELSE 0

(* C14: statements are resolved in source order.  After an update that
   parses, graphs holds for each name the graph of the last gen/let for it
   that built, a let that failed later leaving it in place, where a term
   reference stands for the graph its name was bound to by the last such
   statement before the reference; a reference in a let or rule to a name
   bound by no earlier statement, be it bound by a later one, is recorded as
   an undefined term on the reference's line, and one to a name bound
   earlier is not. *)
C14_ResolvedInSourceOrder ==
    Parsed =>
        LET Holds(lines) ==
                /\ DOMAIN graphs = {u \in CNames : LastBinding(lines, u, Len(lines)) # 0}
                /\ \A u \in DOMAIN graphs : graphs[u] = Binding(lines, u, Len(lines))
                /\ \A m \in 1..Len(lines) :
                       KindOf(lines[m]) \in {"let", "rule"} =>
                           \A k \in 1..Len(RefsOf(lines[m])) :
                               (LastBinding(lines, RefsOf(lines[m])[k], m - 1) = 0)
                               <=> (\E i \in 1..Len(errors) :
                                       errors[i] = <<m, "Undefined term: "
                                                        \o RefsOf(lines[m])[k]>>)
                /\ \A m \in 1..Len(lines) :
                       (/\ WordsOf(lines[m]) = WordsOf(Statements[7])
                        /\ LastRule(lines, "r") = m)
                       => /\ "r" \in DOMAIN rules
                          /\ rules["r"].lhs = Binding(lines, "f", m - 1)
        IN Holds(LinesOf(scall.code))

\* C14's case: gen f : 1 -> 1 followed by let f = id ; sw, which fails; f
\* is still the generator.
C14_Witness ==
    /\ Parsed
    /\ scall.code = TextOf(<<1, 4>>)
    /\ ErrorsAt(2) # <<>>
    /\ LastBinding(LinesOf(scall.code), "f", 2) = 1
    /\ DOMAIN graphs = {"f"}
    /\ graphs["f"] = gen("f", 1, 1)

(***************************************************************************)
(*                      Properties of State.part_at                        *)
(***************************************************************************)
\* The positions in parts of the spans that contain pos, both ends included.
Containing(pos) == {i \in 1..Len(parts) : parts[i][1] <= pos /\ pos <= parts[i][2]}

(* C7: part_at(pos) returns the first span of parts, in list order, with
   start <= pos <= end, and None exactly when no span contains pos; at an
   offset where one span ends and the next starts it returns the earlier
   one. *)
C7_PartAtFirstContaining ==
    scall.op = "part_at" =>
        IF Containing(scall.pos) = {} THEN scall.ret = <<>>
        ELSE scall.ret = parts[CHOOSE i \in Containing(scall.pos) :
                                   \A j \in Containing(scall.pos) : i <= j]

\* C7's case: pos is the end of one span and the start of the next, and the
\* earlier span was returned.
C7_Witness ==
    /\ scall.op = "part_at"
    /\ \E i \in 1..(Len(parts) - 1) :
          /\ parts[i][2] = scall.pos
          /\ parts[i + 1][1] = scall.pos
          /\ scall.ret = parts[i]
          /\ scall.ret # parts[i + 1]
====
